---------------------------- MODULE Spec2Model ----------------------------
(***************************************************************************)
(* Model of the amendment segmenter of parse_amendments.py: the state      *)
(* machine of parse_amendments() with its nested helpers flush_amendment,  *)
(* start_amendment and add_table_text.                                     *)
(*                                                                         *)
(* A Python str is modelled as a sequence of characters, each character a  *)
(* one-character TLA+ string, so that strip, lower, join, the regular      *)
(* expressions and the f-strings are computed the way the code computes    *)
(* them.  Coordinates and font sizes are whole points.                     *)
(***************************************************************************)
EXTENDS Integers, Sequences, FiniteSets, TLC

(***************************************************************************)
(* Bounds of the model.                                                    *)
(***************************************************************************)
\* number of lines of one input document in the specification Spec
MaxLines == 4

(***************************************************************************)
(* Program constants.                                                      *)
(***************************************************************************)
COLUMN_SPLIT_X == 244
AMBIGUOUS_LOW == 220
AMBIGUOUS_HIGH == 300
LINE_Y_TOLERANCE == 2

(***************************************************************************)
(* The string literals of the code and of the input documents.             *)
(***************************************************************************)
\* "amendment"
T_amendment ==
    <<"a", "m", "e", "n", "d", "m", "e", "n", "t">>

\* "or."
T_or_dot ==
    <<"o", "r", ".">>

\* "proposal for rejection"
T_proposal_for_rejection ==
    <<"p", "r", "o", "p", "o", "s", "a", "l", " ", "f", "o", "r", " ", "r",
      "e", "j", "e", "c", "t", "i", "o", "n">>

\* "text proposed by the commission"
T_text_proposed_by_the_commission ==
    <<"t", "e", "x", "t", " ", "p", "r", "o", "p", "o", "s", "e", "d", " ",
      "b", "y", " ", "t", "h", "e", " ", "c", "o", "m", "m", "i", "s", "s",
      "i", "o", "n">>

\* "pe"
T_pe ==
    <<"p", "e">>

\* "am"
T_am ==
    <<"a", "m">>

\* "-am-"
T_dash_am_dash ==
    <<"-", "a", "m", "-">>

\* "Motion for a resolution"
T_Motion_for_a_resolution ==
    <<"M", "o", "t", "i", "o", "n", " ", "f", "o", "r", " ", "a", " ", "r",
      "e", "s", "o", "l", "u", "t", "i", "o", "n">>

\* "Paragraph"
T_Paragraph ==
    <<"P", "a", "r", "a", "g", "r", "a", "p", "h">>

\* "Recital"
T_Recital ==
    <<"R", "e", "c", "i", "t", "a", "l">>

\* "Article"
T_Article ==
    <<"A", "r", "t", "i", "c", "l", "e">>

\* "Heading"
T_Heading ==
    <<"H", "e", "a", "d", "i", "n", "g">>

\* "Title"
T_Title ==
    <<"T", "i", "t", "l", "e">>

\* "Annex"
T_Annex ==
    <<"A", "n", "n", "e", "x">>

\* "Proposal"
T_Proposal ==
    <<"P", "r", "o", "p", "o", "s", "a", "l">>

\* "; "
T_semi_sp ==
    <<";", " ">>

\* ","
T_comma ==
    <<",">>

\* " "
T_sp ==
    <<" ">>

\* "missing_author"
T_missing_author ==
    <<"m", "i", "s", "s", "i", "n", "g", "_", "a", "u", "t", "h", "o", "r">>

\* "both_columns_empty"
T_both_columns_empty ==
    <<"b", "o", "t", "h", "_", "c", "o", "l", "u", "m", "n", "s", "_", "e",
      "m", "p", "t", "y">>

\* "deleted"
T_deleted ==
    <<"d", "e", "l", "e", "t", "e", "d">>

\* "suspiciously_short_column"
T_suspiciously_short_column ==
    <<"s", "u", "s", "p", "i", "c", "i", "o", "u", "s", "l", "y", "_", "s",
      "h", "o", "r", "t", "_", "c", "o", "l", "u", "m", "n">>

\* "no_language_marker"
T_no_language_marker ==
    <<"n", "o", "_", "l", "a", "n", "g", "u", "a", "g", "e", "_", "m", "a",
      "r", "k", "e", "r">>

\* "footer_text_leaked"
T_footer_text_leaked ==
    <<"f", "o", "o", "t", "e", "r", "_", "t", "e", "x", "t", "_", "l", "e",
      "a", "k", "e", "d">>

\* " / "
T_sp_slash_sp ==
    <<" ", "/", " ">>

\* "non_sequential_id expected "
T_non_sequential_id_expected_sp ==
    <<"n", "o", "n", "_", "s", "e", "q", "u", "e", "n", "t", "i", "a", "l",
      "_", "i", "d", " ", "e", "x", "p", "e", "c", "t", "e", "d", " ">>

\* ", got "
T_comma_got_sp ==
    <<",", " ", "g", "o", "t", " ">>

\* "non_sequential_id: expected "
T_non_sequential_id_colon_expected_sp ==
    <<"n", "o", "n", "_", "s", "e", "q", "u", "e", "n", "t", "i", "a", "l",
      "_", "i", "d", ":", " ", "e", "x", "p", "e", "c", "t", "e", "d", " ">>

\* "Amendment "
T_Amendment_sp ==
    <<"A", "m", "e", "n", "d", "m", "e", "n", "t", " ">>

\* "ambiguous_column_split: "
T_ambiguous_column_split_colon_sp ==
    <<"a", "m", "b", "i", "g", "u", "o", "u", "s", "_", "c", "o", "l", "u",
      "m", "n", "_", "s", "p", "l", "i", "t", ":", " ">>

\* " spans near boundary at x"
T_sp_spans_near_boundary_at_x ==
    <<" ", "s", "p", "a", "n", "s", " ", "n", "e", "a", "r", " ", "b", "o",
      "u", "n", "d", "a", "r", "y", " ", "a", "t", " ", "x">>

\* ", "
T_comma_sp ==
    <<",", " ">>

\* "on behalf of"
T_on_behalf_of ==
    <<"o", "n", " ", "b", "e", "h", "a", "l", "f", " ", "o", "f">>

\* "Or. en"
T_Or_dot_en ==
    <<"O", "r", ".", " ", "e", "n">>

\* "AMENDMENT  2"
T_AMENDMENT_sp2_2 ==
    <<"A", "M", "E", "N", "D", "M", "E", "N", "T", " ", " ", "2">>

\* "Ann,"
T_Ann_comma ==
    <<"A", "n", "n", ",">>

\* "Bob"
T_Bob ==
    <<"B", "o", "b">>

\* "Article 1"
T_Article_1 ==
    <<"A", "r", "t", "i", "c", "l", "e", " ", "1">>

\* "note"
T_note ==
    <<"n", "o", "t", "e">>

\* "On Behalf Of X"
T_On_Behalf_Of_X ==
    <<"O", "n", " ", "B", "e", "h", "a", "l", "f", " ", "O", "f", " ", "X">>

\* "on behalf of Y"
T_on_behalf_of_Y ==
    <<"o", "n", " ", "b", "e", "h", "a", "l", "f", " ", "o", "f", " ", "Y">>

\* "AMENDMENT"
T_AMENDMENT ==
    <<"A", "M", "E", "N", "D", "M", "E", "N", "T">>

\* "ab"
T_ab ==
    <<"a", "b">>

\* "PE 123.456"
T_PE_123_dot_456 ==
    <<"P", "E", " ", "1", "2", "3", ".", "4", "5", "6">>

\* "Deleted"
T_Deleted ==
    <<"D", "e", "l", "e", "t", "e", "d">>

\* "New text"
T_New_text ==
    <<"N", "e", "w", " ", "t", "e", "x", "t">>

\* "Amendment"
T_Amendment ==
    <<"A", "m", "e", "n", "d", "m", "e", "n", "t">>

\* "Jane Doe"
T_Jane_Doe ==
    <<"J", "a", "n", "e", " ", "D", "o", "e">>

\* "Paragraph 3"
T_Paragraph_3 ==
    <<"P", "a", "r", "a", "g", "r", "a", "p", "h", " ", "3">>

\* "Deleted."
T_Deleted_dot ==
    <<"D", "e", "l", "e", "t", "e", "d", ".">>

\* "New text here"
T_New_text_here ==
    <<"N", "e", "w", " ", "t", "e", "x", "t", " ", "h", "e", "r", "e">>

\* "non_sequential_id"
T_non_sequential_id ==
    <<"n", "o", "n", "_", "s", "e", "q", "u", "e", "n", "t", "i", "a", "l",
      "_", "i", "d">>

\* "ambiguous_column_split"
T_ambiguous_column_split ==
    <<"a", "m", "b", "i", "g", "u", "o", "u", "s", "_", "c", "o", "l", "u",
      "m", "n", "_", "s", "p", "l", "i", "t">>

\* "Amendment 8"
T_Amendment_8 ==
    <<"A", "m", "e", "n", "d", "m", "e", "n", "t", " ", "8">>

\* "Amendment 7"
T_Amendment_7 ==
    <<"A", "m", "e", "n", "d", "m", "e", "n", "t", " ", "7">>

\* "Ann, Bob"
T_Ann_comma_Bob ==
    <<"A", "n", "n", ",", " ", "B", "o", "b">>

\* "Amendment 1"
T_Amendment_1 ==
    <<"A", "m", "e", "n", "d", "m", "e", "n", "t", " ", "1">>

\* "Proposal on behalf of Z"
T_Proposal_on_behalf_of_Z ==
    <<"P", "r", "o", "p", "o", "s", "a", "l", " ", "o", "n", " ", "b", "e",
      "h", "a", "l", "f", " ", "o", "f", " ", "Z">>

\* "Proposal for rejection"
T_Proposal_for_rejection ==
    <<"P", "r", "o", "p", "o", "s", "a", "l", " ", "f", "o", "r", " ", "r",
      "e", "j", "e", "c", "t", "i", "o", "n">>

\* "Text proposed by the Commission"
T_Text_proposed_by_the_Commission ==
    <<"T", "e", "x", "t", " ", "p", "r", "o", "p", "o", "s", "e", "d", " ",
      "b", "y", " ", "t", "h", "e", " ", "C", "o", "m", "m", "i", "s", "s",
      "i", "o", "n">>

\* "Article 1 / Ann,"
T_Article_1_slash_Ann_comma ==
    <<"A", "r", "t", "i", "c", "l", "e", " ", "1", " ", "/", " ", "A", "n",
      "n", ",">>
(***************************************************************************)
(* Python str operations on character sequences.                          *)
(***************************************************************************)
DigitChars == <<"0", "1", "2", "3", "4", "5", "6", "7", "8", "9">>

UpperChars ==
    <<"A", "B", "C", "D", "E", "F", "G", "H", "I", "J", "K", "L", "M",
      "N", "O", "P", "Q", "R", "S", "T", "U", "V", "W", "X", "Y", "Z">>

LowerChars ==
    <<"a", "b", "c", "d", "e", "f", "g", "h", "i", "j", "k", "l", "m",
      "n", "o", "p", "q", "r", "s", "t", "u", "v", "w", "x", "y", "z">>

\* the one character U+2248 of the f-string of add_table_text
ApproxChar == "U+2248"

IsDigit(c) == \E k \in 1..10 : DigitChars[k] = c
DigitVal(c) == (CHOOSE k \in 1..10 : DigitChars[k] = c) - 1
IsUpper(c) == \E k \in 1..26 : UpperChars[k] = c
IsLower(c) == \E k \in 1..26 : LowerChars[k] = c
IsAlpha(c) == IsUpper(c) \/ IsLower(c)
\* \s of the re module and the characters str.strip() removes
IsSpace(c) == c \in {" ", "\n", "\t", "\r", "\f"}

lower_char(c) ==
    IF IsUpper(c) THEN LowerChars[CHOOSE k \in 1..26 : UpperChars[k] = c] ELSE c

\* str.lower()
lower(t) == [k \in 1..Len(t) |-> lower_char(t[k])]

RECURSIVE lstrip(_)
lstrip(t) == IF t # <<>> /\ IsSpace(Head(t)) THEN lstrip(Tail(t)) ELSE t

RECURSIVE rstrip(_)
rstrip(t) ==
    IF t # <<>> /\ IsSpace(t[Len(t)]) THEN rstrip(SubSeq(t, 1, Len(t) - 1)) ELSE t

\* str.strip()
strip(t) == rstrip(lstrip(t))

\* sep.join(parts)
RECURSIVE join(_, _)
join(sep, parts) ==
    IF parts = <<>> THEN <<>>
    ELSE IF Len(parts) = 1 THEN parts[1]
    ELSE parts[1] \o sep \o join(sep, Tail(parts))

\* sub in t
contains(t, sub) ==
    \E k \in 0..(Len(t) - Len(sub)) : SubSeq(t, k + 1, k + Len(sub)) = sub

\* t.endswith(suf)
endswith(t, suf) ==
    /\ Len(t) >= Len(suf)
    /\ SubSeq(t, Len(t) - Len(suf) + 1, Len(t)) = suf

\* str(n) of a natural number, as the f-strings format it
RECURSIVE str_int(_)
str_int(n) ==
    IF n < 10 THEN <<DigitChars[n + 1]>>
    ELSE str_int(n \div 10) \o <<DigitChars[(n % 10) + 1]>>

\* int(t) of a string of decimal digits
RECURSIVE int(_)
int(t) ==
    IF t = <<>> THEN 0
    ELSE 10 * int(SubSeq(t, 1, Len(t) - 1)) + DigitVal(t[Len(t)])

AllDigits(t) == \A k \in 1..Len(t) : IsDigit(t[k])

(***************************************************************************)
(* The regular expressions (all compiled with re.IGNORECASE).              *)
(***************************************************************************)
\* the split of text after a literal prefix into \s+ and the rest: the
\* number of leading whitespace characters from position p on
RECURSIVE SpaceRun(_, _)
SpaceRun(t, p) ==
    IF p <= Len(t) /\ IsSpace(t[p]) THEN 1 + SpaceRun(t, p + 1) ELSE 0

\* AMENDMENT_RE.match(text): ^Amendment\s+(\d+)$
AMENDMENT_RE(text) ==
    /\ Len(text) >= 11
    /\ lower(SubSeq(text, 1, 9)) = T_amendment
    /\ LET ws == SpaceRun(text, 10)
           num == SubSeq(text, 10 + ws, Len(text))
       IN  ws >= 1 /\ num # <<>> /\ AllDigits(num)

\* m.group(1) of AMENDMENT_RE
AMENDMENT_RE_group1(text) ==
    SubSeq(text, 10 + SpaceRun(text, 10), Len(text))

\* LANGUAGE_MARKER_RE.match(text): ^Or\.\s+[a-z]{2}$
LANGUAGE_MARKER_RE(text) ==
    /\ Len(text) >= 6
    /\ lower(SubSeq(text, 1, 3)) = T_or_dot
    /\ LET ws == SpaceRun(text, 4)
       IN  /\ ws >= 1
           /\ Len(text) = 3 + ws + 2
           /\ IsAlpha(text[Len(text) - 1])
           /\ IsAlpha(text[Len(text)])

\* TABLE_COLUMN_LABEL_RE.match(text):
\* ^(Amendment|Proposal for rejection|Text proposed by the Commission)$
TABLE_COLUMN_LABEL_RE(text) ==
    lower(text) \in { T_amendment, T_proposal_for_rejection,
                      T_text_proposed_by_the_commission }

\* DOC_CODE_RE alternative 1 matched at position p: PE\s*\d{3}[\.,]\d{3}
DocCodePE(t, p) ==
    /\ p + 1 <= Len(t)
    /\ lower(SubSeq(t, p, p + 1)) = T_pe
    /\ LET q == p + 2 + SpaceRun(t, p + 2)
       IN  /\ q + 6 <= Len(t)
           /\ AllDigits(SubSeq(t, q, q + 2))
           /\ t[q + 3] \in {".", ","}
           /\ AllDigits(SubSeq(t, q + 4, q + 6))

\* DOC_CODE_RE alternative 2 matched at position p: AM\\\d+
DocCodeAM(t, p) ==
    /\ p + 3 <= Len(t)
    /\ lower(SubSeq(t, p, p + 1)) = T_am
    /\ t[p + 2] = "\\"
    /\ IsDigit(t[p + 3])

\* DOC_CODE_RE alternative 3 matched at position p: [A-Z]+-AM-\d
\* (a match of [A-Z]+ exists at p iff one letter followed by -AM-\d
\* exists at some position, so one letter is tried at every p)
DocCodeCommittee(t, p) ==
    /\ p + 5 <= Len(t)
    /\ IsAlpha(t[p])
    /\ lower(SubSeq(t, p + 1, p + 4)) = T_dash_am_dash
    /\ IsDigit(t[p + 5])

\* DOC_CODE_RE.search(text)
DOC_CODE_RE(text) ==
    \E p \in 1..Len(text) :
        DocCodePE(text, p) \/ DocCodeAM(text, p) \/ DocCodeCommittee(text, p)

SECTION_KEYWORDS ==
    { T_Motion_for_a_resolution, T_Paragraph, T_Recital, T_Article,
      T_Heading, T_Title, T_Annex, T_Proposal }

(***************************************************************************)
(* Data structures.                                                        *)
(***************************************************************************)
\* Span(x, y, text, bold, size, page_num)
Span(x, y, text, bold, size, page_num) ==
    [x |-> x, y |-> y, text |-> text, bold |-> bold, size |-> size,
     page_num |-> page_num]

\* Line(y, page_num, spans), spans ordered by x
Line(y, page_num, spans) == [y |-> y, page_num |-> page_num, spans |-> spans]

\* Amendment(id): the other fields take their defaults
Amendment(id) ==
    [id |-> id, authors |-> <<>>, section |-> <<>>, content |-> <<>>,
     amendment |-> <<>>, warnings |-> <<>>]

\* Optional[Amendment]: None is the empty sequence, an amendment a is <<a>>
None == <<>>

line_text(line) ==
    strip(join(<<" ">>, [k \in 1..Len(line.spans) |-> line.spans[k].text]))

RECURSIVE SeqMin(_)
SeqMin(s) ==
    IF Len(s) = 1 THEN s[1]
    ELSE LET m == SeqMin(Tail(s)) IN IF s[1] < m THEN s[1] ELSE m

RECURSIVE SeqMax(_)
SeqMax(s) ==
    IF Len(s) = 1 THEN s[1]
    ELSE LET m == SeqMax(Tail(s)) IN IF s[1] > m THEN s[1] ELSE m

line_min_x(line) == SeqMin([k \in 1..Len(line.spans) |-> line.spans[k].x])

line_is_bold(line) == \A k \in 1..Len(line.spans) : line.spans[k].bold

line_size(line) == SeqMax([k \in 1..Len(line.spans) |-> line.spans[k].size])

(***************************************************************************)
(* Phase 2: line assembly.                                                 *)
(***************************************************************************)
abs(n) == IF n < 0 THEN 0 - n ELSE n

\* a < b of two key tuples of the same length
RECURSIVE KeyLess(_, _)
KeyLess(a, b) ==
    IF a = <<>> THEN FALSE
    ELSE IF Head(a) # Head(b) THEN Head(a) < Head(b)
    ELSE KeyLess(Tail(a), Tail(b))

\* sorted(items, key=...), keys[k] being the key of items[k]: the sort is
\* stable, so an item goes after the items of a smaller key and after the
\* earlier items of an equal key
sorted(items, keys) ==
    LET before(j, k) ==
            \/ KeyLess(keys[j], keys[k])
            \/ keys[j] = keys[k] /\ j < k
        rank(k) == Cardinality({j \in 1..Len(items) : before(j, k)}) + 1
    IN  [p \in 1..Len(items) |-> items[CHOOSE k \in 1..Len(items) : rank(k) = p]]

\* key=lambda s: (s.page_num, s.y, s.x)
PageYX(spans) ==
    [k \in 1..Len(spans) |-> << spans[k].page_num, spans[k].y, spans[k].x >>]

\* key=lambda s: s.x
OnlyX(spans) == [k \in 1..Len(spans) |-> << spans[k].x >>]

\* _make_line that keeps the order of the spans
make_line_Unsorted(spans) == Line(spans[1].y, spans[1].page_num, spans)

\* _make_line(spans)
make_line(spans) ==
    LET spans_sorted == sorted(spans, OnlyX(spans))
    IN  Line(spans_sorted[1].y, spans_sorted[1].page_num, spans_sorted)

\* assemble_lines_loop with < for <= in the test of the tolerance
RECURSIVE assemble_lines_loop_Exclusive(_, _, _)
assemble_lines_loop_Exclusive(rest, lines, current_spans) ==
    IF rest = <<>>
    THEN IF current_spans # <<>> THEN Append(lines, make_line(current_spans))
         ELSE lines
    ELSE LET span == Head(rest)
             prev == current_spans[Len(current_spans)]
             same_page == span.page_num = prev.page_num
             close_y == abs(span.y - prev.y) < LINE_Y_TOLERANCE
         IN  IF same_page /\ close_y
             THEN assemble_lines_loop_Exclusive(Tail(rest), lines,
                                      Append(current_spans, span))
             ELSE assemble_lines_loop_Exclusive(Tail(rest),
                                      Append(lines, make_line(current_spans)),
                                      << span >>)

\* the for loop of assemble_lines over the spans rest still to come, and
\* the append of the last line after it
RECURSIVE assemble_lines_loop(_, _, _)
assemble_lines_loop(rest, lines, current_spans) ==
    IF rest = <<>>
    THEN IF current_spans # <<>> THEN Append(lines, make_line(current_spans))
         ELSE lines
    ELSE LET span == Head(rest)
             prev == current_spans[Len(current_spans)]
             same_page == span.page_num = prev.page_num
             close_y == abs(span.y - prev.y) <= LINE_Y_TOLERANCE
         IN  IF same_page /\ close_y
             THEN assemble_lines_loop(Tail(rest), lines,
                                      Append(current_spans, span))
             ELSE assemble_lines_loop(Tail(rest),
                                      Append(lines, make_line(current_spans)),
                                      << span >>)

\* assemble_lines(spans)
assemble_lines(spans) ==
    IF spans = <<>> THEN <<>>
    ELSE LET spans_sorted == sorted(spans, PageYX(spans))
         IN  assemble_lines_loop(Tail(spans_sorted), <<>>,
                                 << Head(spans_sorted) >>)

(***************************************************************************)
(* parse_amendments: the local variables of one invocation, as a record    *)
(* that the nested functions read and update (their nonlocal variables).   *)
(* raised records an AttributeError of current.warnings on current = None. *)
(***************************************************************************)
\* JoinAuthors that separates all author lines with "; "
RECURSIVE JoinAuthors_AlwaysSemicolon(_, _)
JoinAuthors_AlwaysSemicolon(authors_joined, parts) ==
    IF parts = <<>> THEN authors_joined
    ELSE JoinAuthors_AlwaysSemicolon(
             IF authors_joined = <<>> THEN Head(parts)
             ELSE authors_joined \o T_semi_sp \o Head(parts),
             Tail(parts))

\* authors_joined of flush_amendment: the loop over author_lines
RECURSIVE JoinAuthors(_, _)
JoinAuthors(authors_joined, parts) ==
    IF parts = <<>> THEN authors_joined
    ELSE JoinAuthors(
             IF authors_joined = <<>> THEN Head(parts)
             ELSE IF endswith(authors_joined, T_comma)
                  THEN authors_joined \o T_sp \o Head(parts)
                  ELSE authors_joined \o T_semi_sp \o Head(parts),
             Tail(parts))

\* FlushWarnings with "or" for "and" in the both_columns_empty test
FlushWarnings_EitherColumnEmpty(a, has_language_marker) ==
    (IF a.authors = <<>> THEN << T_missing_author >> ELSE <<>>)
    \o (IF a.content = <<>> \/ a.amendment = <<>>
        THEN << T_both_columns_empty >> ELSE <<>>)
    \o (IF a.content # <<>> /\ Len(a.content) < 3
           /\ lower(a.content) # T_deleted
        THEN << T_suspiciously_short_column >> ELSE <<>>)
    \o (IF a.amendment # <<>> /\ Len(a.amendment) < 3
           /\ lower(a.amendment) # T_deleted
        THEN << T_suspiciously_short_column >> ELSE <<>>)
    \o (IF ~has_language_marker THEN << T_no_language_marker >> ELSE <<>>)
    \o (IF DOC_CODE_RE(a.content) \/ DOC_CODE_RE(a.amendment)
        THEN << T_footer_text_leaked >> ELSE <<>>)

\* the "# warnings" block of flush_amendment: the warnings it appends to an
\* amendment a whose authors, section, content and amendment are set
FlushWarnings(a, has_language_marker) ==
    (IF a.authors = <<>> THEN << T_missing_author >> ELSE <<>>)
    \o (IF a.content = <<>> /\ a.amendment = <<>>
        THEN << T_both_columns_empty >> ELSE <<>>)
    \o (IF a.content # <<>> /\ Len(a.content) < 3
           /\ lower(a.content) # T_deleted
        THEN << T_suspiciously_short_column >> ELSE <<>>)
    \o (IF a.amendment # <<>> /\ Len(a.amendment) < 3
           /\ lower(a.amendment) # T_deleted
        THEN << T_suspiciously_short_column >> ELSE <<>>)
    \o (IF ~has_language_marker THEN << T_no_language_marker >> ELSE <<>>)
    \o (IF DOC_CODE_RE(a.content) \/ DOC_CODE_RE(a.amendment)
        THEN << T_footer_text_leaked >> ELSE <<>>)

\* the flushed amendment of s: current with its joined fields and warnings
Finalized(s) ==
    LET cur == s.current[1]
        a == [cur EXCEPT
                !.authors = JoinAuthors(<<>>, s.author_lines),
                !.section = join(T_sp_slash_sp, s.section_parts),
                !.content = strip(join(<<"\n">>, s.left_lines)),
                !.amendment = strip(join(<<"\n">>, s.right_lines))]
    IN  [a EXCEPT !.warnings = @ \o FlushWarnings(a, s.has_language_marker)]

\* flush_amendment with amendments.insert(0, current) for the append
flush_amendment_InsertFirst(s) ==
    IF s.current = None THEN s
    ELSE [s EXCEPT !.amendments = << Finalized(s) >> \o @,
                   !.current = None,
                   !.left_lines = <<>>,
                   !.right_lines = <<>>,
                   !.section_parts = <<>>,
                   !.author_lines = <<>>,
                   !.has_language_marker = FALSE]

\* flush_amendment that returns early unless a language marker was seen
flush_amendment_OnlyMarked(s) ==
    IF s.current = None \/ ~s.has_language_marker THEN s
    ELSE [s EXCEPT !.amendments = Append(@, Finalized(s)),
                   !.current = None,
                   !.left_lines = <<>>,
                   !.right_lines = <<>>,
                   !.section_parts = <<>>,
                   !.author_lines = <<>>,
                   !.has_language_marker = FALSE]

flush_amendment(s) ==
    IF s.current = None THEN s
    ELSE [s EXCEPT !.amendments = Append(@, Finalized(s)),
                   !.current = None,
                   !.left_lines = <<>>,
                   !.right_lines = <<>>,
                   !.section_parts = <<>>,
                   !.author_lines = <<>>,
                   !.has_language_marker = FALSE]

\* NonSequentialWarning without the colon after the tag
NonSequentialWarning_NoColon(expected, got) ==
    T_non_sequential_id_expected_sp \o str_int(expected)
        \o T_comma_got_sp \o str_int(got)

\* f"non_sequential_id: expected {prev_id_num + 1}, got {id_num}"
NonSequentialWarning(expected, got) ==
    T_non_sequential_id_colon_expected_sp \o str_int(expected)
        \o T_comma_got_sp \o str_int(got)

\* start_amendment without the flush of the previous amendment
start_amendment_NoFlush(s, id_str, id_num) ==
    [s EXCEPT
       !.has_language_marker = FALSE,
       !.current =
           IF id_num # s.prev_id_num + 1 /\ s.prev_id_num # 0
           THEN << [Amendment(id_str) EXCEPT !.warnings =
                      << NonSequentialWarning(s.prev_id_num + 1, id_num) >>] >>
           ELSE << Amendment(id_str) >>,
       !.prev_id_num = id_num]

\* start_amendment that numbers the id from the previous id instead of
\* taking the header text
start_amendment_ExpectedId(s, id_str, id_num) ==
    LET f == flush_amendment(s)
        new == Amendment(T_Amendment_sp \o str_int(f.prev_id_num + 1))
    IN  [f EXCEPT
           !.has_language_marker = FALSE,
           !.current =
               IF id_num # f.prev_id_num + 1 /\ f.prev_id_num # 0
               THEN << [new EXCEPT !.warnings =
                          << NonSequentialWarning(f.prev_id_num + 1, id_num) >>] >>
               ELSE << new >>,
           !.prev_id_num = id_num]

\* start_amendment that flushes and creates no new amendment
start_amendment_OnlyFlushes(s, id_str, id_num) ==
    [flush_amendment(s) EXCEPT !.has_language_marker = FALSE,
                               !.prev_id_num = id_num]

start_amendment(s, id_str, id_num) ==
    LET f == flush_amendment(s)
        new == Amendment(id_str)
    IN  [f EXCEPT
           !.has_language_marker = FALSE,
           !.current =
               IF id_num # f.prev_id_num + 1 /\ f.prev_id_num # 0
               THEN << [new EXCEPT !.warnings =
                          << NonSequentialWarning(f.prev_id_num + 1, id_num) >>] >>
               ELSE << new >>,
           !.prev_id_num = id_num]

\* round(span.x): coordinates are whole points
round(x) == x

\* f"ambiguous_column_split: {len(ambiguous_xs)} spans near boundary at x≈{xs_str}"
AmbiguousWarning(ambiguous_xs) ==
    T_ambiguous_column_split_colon_sp \o str_int(Len(ambiguous_xs))
        \o T_sp_spans_near_boundary_at_x \o <<ApproxChar>>
        \o join(T_comma_sp, [k \in 1..Len(ambiguous_xs) |-> str_int(ambiguous_xs[k])])

SpanTexts(spans) == [k \in 1..Len(spans) |-> spans[k].text]

\* LeftSpans with <= for <
LeftSpans_Inclusive(line) == SelectSeq(line.spans, LAMBDA sp : sp.x <= COLUMN_SPLIT_X)

\* the spans of a line left of the column split, and those at or right of it
LeftSpans(line) == SelectSeq(line.spans, LAMBDA sp : sp.x < COLUMN_SPLIT_X)

RightSpans(line) == SelectSeq(line.spans, LAMBDA sp : ~(sp.x < COLUMN_SPLIT_X))

\* add_table_text that warns of an ambiguous split once in an amendment
add_table_text_WarnsOnce(s, line) ==
    LET left_parts == SpanTexts(LeftSpans(line))
        right_parts == SpanTexts(RightSpans(line))
        amb == SelectSeq(line.spans,
                   LAMBDA sp : AMBIGUOUS_LOW <= sp.x /\ sp.x < AMBIGUOUS_HIGH)
    IN  [s EXCEPT
            !.current =
                IF amb # <<>> /\ s.current # None /\ @[1].warnings = <<>>
                THEN << [@[1] EXCEPT !.warnings =
                           Append(@, AmbiguousWarning(<< amb[1].x >>))] >>
                ELSE @,
            !.left_lines =
                IF left_parts # <<>>
                THEN Append(@, join(T_sp, left_parts)) ELSE @,
            !.right_lines =
                IF right_parts # <<>>
                THEN Append(@, join(T_sp, right_parts)) ELSE @]

add_table_text(s, line) ==
    LET left_parts == SpanTexts(LeftSpans(line))
        right_parts == SpanTexts(RightSpans(line))
        amb == SelectSeq(line.spans,
                   LAMBDA sp : AMBIGUOUS_LOW <= sp.x /\ sp.x < AMBIGUOUS_HIGH)
        ambiguous_xs == [k \in 1..Len(amb) |-> round(amb[k].x)]
    IN  IF ambiguous_xs # <<>> /\ s.current = None
        THEN [s EXCEPT !.raised = TRUE]
        ELSE [s EXCEPT
                !.current =
                    IF ambiguous_xs # <<>>
                    THEN << [@[1] EXCEPT !.warnings =
                               Append(@, AmbiguousWarning(ambiguous_xs))] >>
                    ELSE @,
                !.left_lines =
                    IF left_parts # <<>>
                    THEN Append(@, join(T_sp, left_parts)) ELSE @,
                !.right_lines =
                    IF right_parts # <<>>
                    THEN Append(@, join(T_sp, right_parts)) ELSE @]

\* authors_branch that keeps the text of a line with spans in both columns
authors_branch_KeepsBothColumns(s, line, text, bold, size) ==
    LET right_spans == SelectSeq(line.spans, LAMBDA sp : sp.x >= COLUMN_SPLIT_X)
        left_spans == SelectSeq(line.spans, LAMBDA sp : sp.x < COLUMN_SPLIT_X)
    IN  IF right_spans # <<>> THEN
            IF left_spans # <<>> \/ ~TABLE_COLUMN_LABEL_RE(text)
            THEN add_table_text([s EXCEPT !.state = "TABLE_BODY"], line)
            ELSE [s EXCEPT !.state = "TABLE_BODY"]
        ELSE IF contains(lower(text), T_on_behalf_of) THEN
            [s EXCEPT !.author_lines = Append(@, text)]
        ELSE IF bold /\ size >= 11 THEN
            IF \E kw \in SECTION_KEYWORDS : contains(text, kw)
            THEN [s EXCEPT !.section_parts = Append(@, text)]
            ELSE IF s.section_parts # <<>>
                 THEN [s EXCEPT !.section_parts = Append(@, text)]
                 ELSE [s EXCEPT !.author_lines = Append(@, text)]
        ELSE s

\* authors_branch without the test of the size of a bold line
authors_branch_AnySize(s, line, text, bold, size) ==
    LET right_spans == SelectSeq(line.spans, LAMBDA sp : sp.x >= COLUMN_SPLIT_X)
        left_spans == SelectSeq(line.spans, LAMBDA sp : sp.x < COLUMN_SPLIT_X)
    IN  IF right_spans # <<>> THEN
            IF left_spans = <<>> /\ ~TABLE_COLUMN_LABEL_RE(text)
            THEN add_table_text([s EXCEPT !.state = "TABLE_BODY"], line)
            ELSE [s EXCEPT !.state = "TABLE_BODY"]
        ELSE IF contains(lower(text), T_on_behalf_of) THEN
            [s EXCEPT !.author_lines = Append(@, text)]
        ELSE IF bold THEN
            IF \E kw \in SECTION_KEYWORDS : contains(text, kw)
            THEN [s EXCEPT !.section_parts = Append(@, text)]
            ELSE IF s.section_parts # <<>>
                 THEN [s EXCEPT !.section_parts = Append(@, text)]
                 ELSE [s EXCEPT !.author_lines = Append(@, text)]
        ELSE s

\* authors_branch that takes a bold line without a keyword for an author
\* line after a section part too
authors_branch_AuthorAfterSection(s, line, text, bold, size) ==
    LET right_spans == SelectSeq(line.spans, LAMBDA sp : sp.x >= COLUMN_SPLIT_X)
        left_spans == SelectSeq(line.spans, LAMBDA sp : sp.x < COLUMN_SPLIT_X)
    IN  IF right_spans # <<>> THEN
            IF left_spans = <<>> /\ ~TABLE_COLUMN_LABEL_RE(text)
            THEN add_table_text([s EXCEPT !.state = "TABLE_BODY"], line)
            ELSE [s EXCEPT !.state = "TABLE_BODY"]
        ELSE IF contains(lower(text), T_on_behalf_of) THEN
            [s EXCEPT !.author_lines = Append(@, text)]
        ELSE IF bold /\ size >= 11 THEN
            IF \E kw \in SECTION_KEYWORDS : contains(text, kw)
            THEN [s EXCEPT !.section_parts = Append(@, text)]
            ELSE [s EXCEPT !.author_lines = Append(@, text)]
        ELSE s

\* authors_branch with the "on behalf of" test before the right-column test
authors_branch_OnBehalfFirst(s, line, text, bold, size) ==
    LET right_spans == SelectSeq(line.spans, LAMBDA sp : sp.x >= COLUMN_SPLIT_X)
        left_spans == SelectSeq(line.spans, LAMBDA sp : sp.x < COLUMN_SPLIT_X)
    IN  IF contains(lower(text), T_on_behalf_of) THEN
            [s EXCEPT !.author_lines = Append(@, text)]
        ELSE IF right_spans # <<>> THEN
            IF left_spans = <<>> /\ ~TABLE_COLUMN_LABEL_RE(text)
            THEN add_table_text([s EXCEPT !.state = "TABLE_BODY"], line)
            ELSE [s EXCEPT !.state = "TABLE_BODY"]
        ELSE IF contains(lower(text), T_on_behalf_of) THEN
            [s EXCEPT !.author_lines = Append(@, text)]
        ELSE IF bold /\ size >= 11 THEN
            IF \E kw \in SECTION_KEYWORDS : contains(text, kw)
            THEN [s EXCEPT !.section_parts = Append(@, text)]
            ELSE IF s.section_parts # <<>>
                 THEN [s EXCEPT !.section_parts = Append(@, text)]
                 ELSE [s EXCEPT !.author_lines = Append(@, text)]
        ELSE s

\* the branch "if state == 'AUTHORS'" of the loop of parse_amendments
authors_branch(s, line, text, bold, size) ==
    LET right_spans == SelectSeq(line.spans, LAMBDA sp : sp.x >= COLUMN_SPLIT_X)
        left_spans == SelectSeq(line.spans, LAMBDA sp : sp.x < COLUMN_SPLIT_X)
    IN  IF right_spans # <<>> THEN
            IF left_spans = <<>> /\ ~TABLE_COLUMN_LABEL_RE(text)
            THEN add_table_text([s EXCEPT !.state = "TABLE_BODY"], line)
            ELSE [s EXCEPT !.state = "TABLE_BODY"]
        ELSE IF contains(lower(text), T_on_behalf_of) THEN
            [s EXCEPT !.author_lines = Append(@, text)]
        ELSE IF bold /\ size >= 11 THEN
            IF \E kw \in SECTION_KEYWORDS : contains(text, kw)
            THEN [s EXCEPT !.section_parts = Append(@, text)]
            ELSE IF s.section_parts # <<>>
                 THEN [s EXCEPT !.section_parts = Append(@, text)]
                 ELSE [s EXCEPT !.author_lines = Append(@, text)]
        ELSE s

\* whether the loop takes a line for an amendment header
IsHeader(line) ==
    /\ line_text(line) # <<>>
    /\ AMENDMENT_RE(line_text(line))
    /\ line_is_bold(line)
    /\ line_size(line) >= 11

\* loop_body with the language-marker test after the AUTHORS branch, so
\* that only TABLE_BODY sees a marker
loop_body_MarkerAfterAuthors(s, line) ==
    LET text == line_text(line)
    IN  IF text = <<>> THEN s
        ELSE IF IsHeader(line) THEN
            [start_amendment(s, text, int(AMENDMENT_RE_group1(text)))
                EXCEPT !.state = "AUTHORS"]
        ELSE IF s.state = "PREAMBLE" THEN s
        ELSE IF s.state = "AUTHORS" THEN
            authors_branch(s, line, text, line_is_bold(line), line_size(line))
        ELSE IF LANGUAGE_MARKER_RE(text) THEN
            [s EXCEPT !.has_language_marker = TRUE, !.state = "PREAMBLE"]
        ELSE IF s.state = "TABLE_BODY" THEN add_table_text(s, line)
        ELSE s

\* loop_body with the language-marker test before the PREAMBLE test
loop_body_MarkerBeforePreamble(s, line) ==
    LET text == line_text(line)
    IN  IF text = <<>> THEN s
        ELSE IF IsHeader(line) THEN
            [start_amendment(s, text, int(AMENDMENT_RE_group1(text)))
                EXCEPT !.state = "AUTHORS"]
        ELSE IF LANGUAGE_MARKER_RE(text) THEN
            [s EXCEPT !.has_language_marker = TRUE, !.state = "PREAMBLE"]
        ELSE IF s.state = "PREAMBLE" THEN s
        ELSE IF s.state = "AUTHORS" THEN
            authors_branch(s, line, text, line_is_bold(line), line_size(line))
        ELSE IF s.state = "TABLE_BODY" THEN add_table_text(s, line)
        ELSE s

\* one iteration of "for line in lines" of parse_amendments
loop_body(s, line) ==
    LET text == line_text(line)
    IN  IF text = <<>> THEN s
        ELSE IF IsHeader(line) THEN
            [start_amendment(s, text, int(AMENDMENT_RE_group1(text)))
                EXCEPT !.state = "AUTHORS"]
        ELSE IF s.state = "PREAMBLE" THEN s
        ELSE IF LANGUAGE_MARKER_RE(text) THEN
            [s EXCEPT !.has_language_marker = TRUE, !.state = "PREAMBLE"]
        ELSE IF s.state = "AUTHORS" THEN
            authors_branch(s, line, text, line_is_bold(line), line_size(line))
        ELSE IF s.state = "TABLE_BODY" THEN add_table_text(s, line)
        ELSE s

(***************************************************************************)
(* Input lines.  Every span text is non-empty and stripped, as             *)
(* extract_spans produces it.                                              *)
(***************************************************************************)
\* a line of one span
OneSpan(x, text, bold, size) == Line(100, 1, << Span(x, 100, text, bold, size, 1) >>)

\* a line of two spans, ordered by x
TwoSpans(x1, text1, x2, text2, bold, size) ==
    Line(100, 1, << Span(x1, 100, text1, bold, size, 1),
                    Span(x2, 100, text2, bold, size, 1) >>)

\* the header line "Amendment <n>": all bold, size 12
HeaderLine(n) == OneSpan(139, T_Amendment_sp \o str_int(n), TRUE, 12)

\* the header numbers of the documents of Spec
HeaderNums == {0, 1, 2, 10}

LanguageMarkerLine == OneSpan(71, T_Or_dot_en, FALSE, 12)

Lines ==
    { HeaderLine(n) : n \in HeaderNums }
    \cup
    { OneSpan(139, T_AMENDMENT_sp2_2, TRUE, 12),
      LanguageMarkerLine,
      OneSpan(71, T_Ann_comma, TRUE, 12),
      OneSpan(71, T_Bob, TRUE, 12),
      OneSpan(71, T_Article_1, TRUE, 12),
      OneSpan(71, T_Title, TRUE, 10),
      OneSpan(71, T_note, FALSE, 12),
      OneSpan(71, T_On_Behalf_Of_X, FALSE, 12),
      OneSpan(300, T_on_behalf_of_Y, FALSE, 12),
      OneSpan(300, T_AMENDMENT, TRUE, 12),
      OneSpan(244, T_ab, FALSE, 12),
      OneSpan(243, T_PE_123_dot_456, FALSE, 12),
      TwoSpans(50, T_Deleted, 300, T_New_text, FALSE, 12) }

(***************************************************************************)
(* State.                                                                  *)
(***************************************************************************)
VARIABLES
    amendments,           \* the list parse_amendments returns
    state,                \* "PREAMBLE", "AUTHORS" or "TABLE_BODY"
    current,              \* Optional[Amendment]
    prev_id_num,
    left_lines,
    right_lines,
    section_parts,
    author_lines,
    has_language_marker,
    pc,                   \* "loop", "done" (returned) or "raised"
    input,                \* the lines argument, when the whole of it is given
    i,                    \* number of lines the loop has consumed
    headers,              \* history: the numbers of the header lines, in order
    seen,                 \* history: what the lines since the last header held
    log,                  \* history: seen of every amendment that has ended
    fragments,            \* the fragments assemble_lines is called on
    run,                  \* the number of the call of parse_amendments
    first_output          \* what the first call returned, once it has

locals == << amendments, state, current, prev_id_num, left_lines, right_lines,
             section_parts, author_lines, has_language_marker >>

vars == << amendments, state, current, prev_id_num, left_lines, right_lines,
           section_parts, author_lines, has_language_marker, pc, input, i,
           headers, seen, log, fragments, run, first_output >>

\* the local variables as the record the nested functions work on
S ==
    [amendments |-> amendments, state |-> state, current |-> current,
     prev_id_num |-> prev_id_num, left_lines |-> left_lines,
     right_lines |-> right_lines, section_parts |-> section_parts,
     author_lines |-> author_lines,
     has_language_marker |-> has_language_marker, raised |-> FALSE]

\* the assignment of a record of local variables to the variables
Assign(n) ==
    /\ amendments' = n.amendments
    /\ state' = n.state
    /\ current' = n.current
    /\ prev_id_num' = n.prev_id_num
    /\ left_lines' = n.left_lines
    /\ right_lines' = n.right_lines
    /\ section_parts' = n.section_parts
    /\ author_lines' = n.author_lines
    /\ has_language_marker' = n.has_language_marker

\* history of one amendment: whether a language-marker line and a span at or
\* right of the column split came after its header, the spans of the
\* lines handed to add_table_text, in order, how many of those lines held a
\* span in the ambiguous band, and the author lines and section parts
\* captured so far
NothingSeen ==
    [marker |-> FALSE, right |-> FALSE, body |-> <<>>, ambiguous |-> 0,
     authors |-> <<>>, sections |-> <<>>]

\* whether the loop hands the line to add_table_text in state st
GoesToTable(st, line) ==
    /\ line_text(line) # <<>>
    /\ ~IsHeader(line)
    /\ ~LANGUAGE_MARKER_RE(line_text(line))
    /\ \/ st = "TABLE_BODY"
       \/ /\ st = "AUTHORS"
          /\ \A k \in 1..Len(line.spans) : line.spans[k].x >= COLUMN_SPLIT_X
          /\ ~TABLE_COLUMN_LABEL_RE(line_text(line))

Record(line) ==
    IF IsHeader(line)
    THEN /\ headers' = Append(headers, int(AMENDMENT_RE_group1(line_text(line))))
         /\ seen' = NothingSeen
         /\ log' = IF headers = <<>> THEN log ELSE Append(log, seen)
    ELSE /\ headers' = headers
         /\ seen' = [marker |-> seen.marker \/ LANGUAGE_MARKER_RE(line_text(line)),
                     right |-> seen.right
                               \/ \E k \in 1..Len(line.spans) :
                                      line.spans[k].x >= COLUMN_SPLIT_X,
                     body |-> IF GoesToTable(state, line)
                              THEN seen.body \o line.spans ELSE seen.body,
                     ambiguous |->
                         IF /\ GoesToTable(state, line)
                            /\ \E k \in 1..Len(line.spans) :
                                   /\ line.spans[k].x >= AMBIGUOUS_LOW
                                   /\ line.spans[k].x < AMBIGUOUS_HIGH
                         THEN seen.ambiguous + 1 ELSE seen.ambiguous,
                     authors |-> author_lines',
                     sections |-> section_parts']
         /\ log' = log

InitLocals ==
    /\ amendments = <<>>
    /\ state = "PREAMBLE"
    /\ current = None
    /\ prev_id_num = 0
    /\ left_lines = <<>>
    /\ right_lines = <<>>
    /\ section_parts = <<>>
    /\ author_lines = <<>>
    /\ has_language_marker = FALSE
    /\ pc = "loop"
    /\ i = 0
    /\ headers = <<>>
    /\ seen = NothingSeen
    /\ log = <<>>
    /\ run = 1
    /\ first_output = <<>>

\* the loop body on a line, and the history of it
Consume(line) ==
    LET n == loop_body(S, line)
    IN  /\ Assign(n)
        /\ pc' = IF n.raised THEN "raised" ELSE "loop"
        /\ i' = i + 1
        /\ Record(line)
        /\ UNCHANGED << fragments, run, first_output >>

\* the final flush_amendment() and the return
Return ==
    /\ Assign(flush_amendment(S))
    /\ pc' = "done"
    /\ log' = IF headers = <<>> THEN log ELSE Append(log, seen)
    /\ UNCHANGED << input, i, headers, seen, fragments, run, first_output >>

(***************************************************************************)
(* Spec: parse_amendments on every document of at most MaxLines lines of   *)
(* Lines; the document is read line by line.                               *)
(***************************************************************************)
Init == InitLocals /\ input = <<>> /\ fragments = <<>>

ReadLine ==
    /\ pc = "loop"
    /\ i < MaxLines
    /\ \E line \in Lines : Consume(line)
    /\ UNCHANGED input

EndOfInput == pc = "loop" /\ Return

Next == ReadLine \/ EndOfInput

Spec == Init /\ [][Next]_vars

(***************************************************************************)
(* SpecScenario: parse_amendments on a whole document given in advance,    *)
(* one of the variations of the six-line scenario: header, author line,    *)
(* section line, a line with a left and a right fragment, language         *)
(* marker, next header.                                                    *)
(***************************************************************************)
\* the first line with a left and a right span that a real table starts with
HeadingRow ==
    TwoSpans(71, T_Motion_for_a_resolution, 300, T_Amendment, TRUE, 12)

ScenarioDoc(a, author_bold, xl, xr, heading, marked, b) ==
    << HeaderLine(a),
       OneSpan(71, T_Jane_Doe, author_bold, 12),
       OneSpan(71, T_Paragraph_3, TRUE, 12) >>
    \o (IF heading THEN << HeadingRow >> ELSE <<>>)
    \o << TwoSpans(xl, T_Deleted_dot, xr, T_New_text_here, FALSE, 12) >>
    \o (IF marked THEN << LanguageMarkerLine >> ELSE <<>>)
    \o << HeaderLine(b) >>

ScenarioDocs ==
    { ScenarioDoc(a, author_bold, xl, xr, heading, marked, b) :
        a \in {5, 7}, author_bold \in BOOLEAN, xl \in {50, 243},
        xr \in {244, 300}, heading \in BOOLEAN, marked \in BOOLEAN,
        b \in {7, 8} }

InitScenario == InitLocals /\ input \in ScenarioDocs /\ fragments = <<>>

NextLine ==
    /\ pc = "loop"
    /\ i < Len(input)
    /\ Consume(input[i + 1])
    /\ UNCHANGED input

EndOfDocument == pc = "loop" /\ i = Len(input) /\ Return

NextScenario == NextLine \/ EndOfDocument

SpecScenario == InitScenario /\ [][NextScenario]_vars

(***************************************************************************)
(* Vocabulary of the properties.                                           *)
(***************************************************************************)
HasWarning(a, w) == \E k \in 1..Len(a.warnings) : a.warnings[k] = w

\* w.split(":")[0].strip() of _assert_structural
WarningTag(w) ==
    LET colons == { k \in 1..Len(w) : w[k] = ":" }
        first == IF colons = {} THEN Len(w) + 1
                 ELSE CHOOSE k \in colons : \A j \in colons : k <= j
    IN  strip(SubSeq(w, 1, first - 1))

KNOWN_WARNING_TYPES ==
    { T_non_sequential_id, T_missing_author, T_both_columns_empty,
      T_suspiciously_short_column, T_no_language_marker,
      T_ambiguous_column_split, T_footer_text_leaked }

\* int(k.split()[-1]) of _assert_structural: the number an id ends with
IdNum(id) ==
    LET spaces == { k \in 1..Len(id) : IsSpace(id[k]) }
        last == IF spaces = {} THEN 0
                ELSE CHOOSE k \in spaces : \A j \in spaces : j <= k
    IN  int(SubSeq(id, last + 1, Len(id)))

\* a text without its whitespace
NoWS(t) == SelectSeq(t, LAMBDA c : ~IsSpace(c))

\* the texts of the spans of a sequence that lie left of x = 244 (side =
\* "left") or at or right of it (side = "right"), concatenated in order
RECURSIVE ColumnText(_, _)
ColumnText(spans, side) ==
    IF spans = <<>> THEN <<>>
    ELSE (IF (Head(spans).x < 244) <=> (side = "left")
          THEN Head(spans).text ELSE <<>>)
         \o ColumnText(Tail(spans), side)

Emitted == 1..Len(amendments)

(***************************************************************************)
(* C1.  The six-line scenario.                                             *)
(***************************************************************************)
\* header 7, non-bold author line, bold "Paragraph 3", "Deleted." at x = 50
\* and "New text here" at x = 300 in one line, "Or. en", header 8
Scenario == ScenarioDoc(7, FALSE, 50, 300, FALSE, TRUE, 8)

\* the same with a column-heading row before the two-fragment line
ScenarioWithHeadingRow == ScenarioDoc(7, FALSE, 50, 300, TRUE, TRUE, 8)

\* amendment 8 as the record of a header that nothing follows
FreshAmendment8 ==
    [Amendment(T_Amendment_8) EXCEPT
        !.warnings = << T_missing_author, T_both_columns_empty,
                        T_no_language_marker >>]

\* C1 as stated: on the scenario, parse_amendments returns amendment 7 with
\* content "Deleted." and amendment "New text here" and without
\* no_language_marker, and amendment 8 as a separate fresh record.
C1_ScenarioAsStated ==
    (pc = "done" /\ input = Scenario) =>
        /\ Len(amendments) = 2
        /\ amendments[1].id = T_Amendment_7
        /\ amendments[1].content = T_Deleted_dot
        /\ amendments[1].amendment = T_New_text_here
        /\ ~HasWarning(amendments[1], T_no_language_marker)
        /\ amendments[2] = FreshAmendment8

\* C1 amended: on the scenario the two-fragment line is the first line with a
\* right-column fragment, so it is dropped as the column-heading row:
\* amendment 7 has empty content and amendment and both_columns_empty, no
\* no_language_marker, and amendment 8 is a separate fresh record.  With a
\* column-heading row before the two-fragment line, amendment 7 has content
\* "Deleted." and amendment "New text here".
C1_Scenario ==
    /\ (pc = "done" /\ input = Scenario) =>
        /\ Len(amendments) = 2
        /\ amendments[1] =
              [id |-> T_Amendment_7, authors |-> <<>>,
               section |-> T_Paragraph_3, content |-> <<>>,
               amendment |-> <<>>,
               warnings |-> << T_missing_author, T_both_columns_empty >>]
        /\ amendments[2] = FreshAmendment8
    /\ (pc = "done" /\ input = ScenarioWithHeadingRow) =>
        /\ Len(amendments) = 2
        /\ amendments[1] =
              [id |-> T_Amendment_7, authors |-> <<>>,
               section |-> T_Paragraph_3, content |-> T_Deleted_dot,
               amendment |-> T_New_text_here,
               warnings |-> << T_missing_author >>]
        /\ amendments[2] = FreshAmendment8

C1_Witness == pc = "done" /\ input = Scenario /\ Len(amendments) = 2

(***************************************************************************)
(* C2.  Number of records and distinctness of ids.                         *)
(***************************************************************************)
\* C2 as stated: the number of records returned equals the number of
\* distinct header numbers recognized, and no two records carry the same id.
C2_DistinctHeadersAsStated ==
    pc = "done" =>
        /\ Len(amendments) = Cardinality({ headers[k] : k \in 1..Len(headers) })
        /\ \A j, k \in Emitted : j # k => amendments[j].id # amendments[k].id

\* C2 amended: the number of records returned equals the number of header
\* lines recognized, a repeated number counted once per line, and the
\* records of two headers with different numbers carry different ids.
C2_OneRecordPerHeaderLine ==
    pc = "done" =>
        /\ Len(amendments) = Len(headers)
        /\ \A j, k \in Emitted :
              headers[j] # headers[k] => amendments[j].id # amendments[k].id

C2_Witness ==
    /\ pc = "done"
    /\ \E j, k \in Emitted :
          /\ j < k
          /\ headers[j] = headers[k]
          /\ amendments[j].id = amendments[k].id
    /\ \E j, k \in Emitted : headers[j] # headers[k]

(***************************************************************************)
(* C3.  Output order is header order.                                      *)
(***************************************************************************)
\* C3: the k-th record carries the number of the k-th recognized header
\* line, at every moment for the records emitted so far and, at the return,
\* for all headers.
C3_OutputOrderIsHeaderOrder ==
    /\ Len(amendments) <= Len(headers)
    /\ \A k \in Emitted : IdNum(amendments[k].id) = headers[k]
    /\ pc = "done" => Len(amendments) = Len(headers)

C3_Witness ==
    /\ pc = "done"
    /\ Len(amendments) = 3
    /\ headers[1] > headers[2]
    /\ headers[2] < headers[3]

(***************************************************************************)
(* C4.  Column partition.                                                  *)
(***************************************************************************)
\* C4: for every record, content is made of the texts of the body spans
\* with x < 244 and amendment of the texts of the body spans with x >= 244,
\* each text once and in order (whitespace, which only separates the
\* texts, left aside).
C4_ColumnPartition ==
    /\ Len(log) = Len(amendments)
    /\ \A k \in Emitted :
          /\ NoWS(amendments[k].content) = NoWS(ColumnText(log[k].body, "left"))
          /\ NoWS(amendments[k].amendment) = NoWS(ColumnText(log[k].body, "right"))

C4_Witness ==
    \E k \in Emitted :
        /\ Len(log[k].body) >= 3
        /\ \E n \in 1..Len(log[k].body) : log[k].body[n].x = 244
        /\ \E n \in 1..Len(log[k].body) : log[k].body[n].x = 243
        /\ amendments[k].content # <<>>
        /\ amendments[k].amendment # <<>>

(***************************************************************************)
(* C5.  The non_sequential_id warning.                                     *)
(***************************************************************************)
\* the warnings of a with the tag non_sequential_id
NonSequentialWarnings(a) ==
    { a.warnings[k] : k \in { n \in 1..Len(a.warnings) :
                                WarningTag(a.warnings[n]) = T_non_sequential_id } }

\* C5: the record of the first header carries no non_sequential_id warning;
\* the record of a later header with number n carries "non_sequential_id:
\* expected <prev+1>, got <n>" iff n differs from the previous header's
\* number plus 1, and no other non_sequential_id warning.
C5_NonSequentialIffGap ==
    \A k \in Emitted :
        NonSequentialWarnings(amendments[k]) =
            IF k > 1 /\ headers[k] # headers[k - 1] + 1
            THEN { NonSequentialWarning(headers[k - 1] + 1, headers[k]) }
            ELSE {}

(***************************************************************************)
(* C6.  Monotonic flush.                                                   *)
(***************************************************************************)
\* C6: once the next header has been processed an amendment is a record of
\* the output, and a record of the output is never changed, moved or
\* removed by a later line or by the return.
C6_MonotonicFlush ==
    /\ [](Len(amendments) >= Len(headers) - 1)
    /\ [][\A k \in Emitted :
             Len(amendments') >= k /\ amendments'[k] = amendments[k]]_vars

C6_Witness ==
    /\ Len(amendments) = 1
    /\ current # None
    /\ current[1].warnings # <<>>
    /\ left_lines # <<>>
    /\ right_lines # <<>>

(***************************************************************************)
(* C7.  Every amendment is emitted once, at the next header or the end.    *)
(***************************************************************************)
\* C7: while the loop runs, the amendment of the last header is in progress
\* and exactly the amendments of the earlier headers are in the output; at
\* the return every header's amendment is in the output and none is in
\* progress.
C7_EmittedOnceAtNextHeaderOrEnd ==
    /\ pc = "loop" =>
        /\ (current # None) <=> (headers # <<>>)
        /\ Len(amendments) = IF headers = <<>> THEN 0 ELSE Len(headers) - 1
    /\ pc = "done" =>
        /\ current = None
        /\ Len(amendments) = Len(headers)
    /\ \A k \in 1..Len(headers) :
          k <= Len(amendments) => IdNum(amendments[k].id) = headers[k]

C7_Witness ==
    /\ pc = "done"
    /\ Len(amendments) = 2
    /\ HasWarning(amendments[2], T_no_language_marker)
    /\ amendments[2].amendment # <<>>

(***************************************************************************)
(* C8.  The no_language_marker warning.                                    *)
(***************************************************************************)
\* C8: a record carries no_language_marker iff no language-marker line came
\* between its header and the next header or the end of the input.
C8_NoLanguageMarkerIffNoMarker ==
    /\ Len(log) = Len(amendments)
    /\ \A k \in Emitted :
          HasWarning(amendments[k], T_no_language_marker) <=> ~log[k].marker

\* a marker arrived in TABLE_BODY for one amendment, and the next has none
C8_Witness ==
    \E k \in Emitted :
        /\ k + 1 \in Emitted
        /\ log[k].marker
        /\ log[k].body # <<>>
        /\ ~HasWarning(amendments[k], T_no_language_marker)
        /\ HasWarning(amendments[k + 1], T_no_language_marker)

(***************************************************************************)
(* C9.  Warning-set closure.                                               *)
(***************************************************************************)
\* C9: the tag of every warning of every record is a known warning type.
C9_WarningSetClosure ==
    \A k \in Emitted :
        \A n \in 1..Len(amendments[k].warnings) :
            WarningTag(amendments[k].warnings[n]) \in KNOWN_WARNING_TYPES

C9_Witness ==
    \E k \in Emitted :
        { WarningTag(amendments[k].warnings[n]) :
            n \in 1..Len(amendments[k].warnings) }
        = { T_non_sequential_id, T_ambiguous_column_split, T_missing_author,
            T_suspiciously_short_column, T_no_language_marker }

(***************************************************************************)
(* C10.  Amendments without a right-column fragment, both_columns_empty.   *)
(***************************************************************************)
\* C10: a record none of whose lines held a span at x >= 244 has an empty
\* amendment, and carries both_columns_empty only if its content is empty
\* too; every record carries both_columns_empty iff its content and its
\* amendment are both empty.
C10_BothColumnsEmpty ==
    /\ Len(log) = Len(amendments)
    /\ \A k \in Emitted :
          /\ ~log[k].right =>
                /\ amendments[k].amendment = <<>>
                /\ HasWarning(amendments[k], T_both_columns_empty)
                      => amendments[k].content = <<>>
          /\ HasWarning(amendments[k], T_both_columns_empty)
                <=> (amendments[k].content = <<>> /\ amendments[k].amendment = <<>>)

C10_Witness ==
    \E j, k \in Emitted :
        /\ ~log[j].right
        /\ HasWarning(amendments[j], T_both_columns_empty)
        /\ amendments[k].content # <<>>
        /\ amendments[k].amendment = <<>>
        /\ ~HasWarning(amendments[k], T_both_columns_empty)

(***************************************************************************)
(* C11.  The join of the author lines.                                     *)
(***************************************************************************)
RECURSIVE Concat(_)
Concat(texts) == IF texts = <<>> THEN <<>> ELSE Head(texts) \o Concat(Tail(texts))

\* the author lines in order, each after the first preceded by one space
\* when the line before it ends with a comma and by "; " otherwise
ExpectedAuthors(parts) ==
    Concat([k \in 1..Len(parts) |->
              (IF k = 1 THEN <<>>
               ELSE IF parts[k - 1][Len(parts[k - 1])] = "," THEN <<" ">>
               ELSE <<";", " ">>)
              \o parts[k]])

\* C11: the authors of every record are its captured author lines in
\* order, a line joined to the text before it with one space when that text
\* ends with a comma and with "; " otherwise.
C11_AuthorsJoin ==
    /\ Len(log) = Len(amendments)
    /\ \A k \in Emitted :
          amendments[k].authors = ExpectedAuthors(log[k].authors)

\* a two-line author block whose first line ends with a comma
C11_Witness ==
    \E k \in Emitted :
        /\ log[k].authors = << T_Ann_comma, T_Bob >>
        /\ amendments[k].authors = T_Ann_comma_Bob

(***************************************************************************)
(* SpecPipeline: assemble_lines and then parse_amendments, called twice on   *)
(* every list of at most MaxSpans fragments of Fragments.                  *)
(***************************************************************************)
MaxSpans == 3

\* a header, a bold author line, and a body text at the right of the split;
\* three positions on page 1 that are 2 points apart, and one on page 2
Fragments ==
    { Span(f[1], p[2], f[2], f[3], f[4], p[1]) :
        f \in { << 50, T_Amendment_1, TRUE, 12 >>,
                << 50, T_Ann_comma, TRUE, 12 >>,
                << 300, T_New_text, FALSE, 10 >> },
        p \in { << 1, 100 >>, << 1, 102 >>, << 1, 104 >>, << 2, 100 >> } }

FragmentLists == UNION { [1..n -> Fragments] : n \in 0..MaxSpans }

\* an entry that keeps the previous id number of the call before
parse_amendments_entry_KeepsPrevId(s) ==
    [amendments |-> <<>>, state |-> "PREAMBLE", current |-> None,
     prev_id_num |-> s.prev_id_num, left_lines |-> <<>>, right_lines |-> <<>>,
     section_parts |-> <<>>, author_lines |-> <<>>,
     has_language_marker |-> FALSE, raised |-> FALSE]

\* the local variables at the entry of a call of parse_amendments; they do
\* not depend on s, the local variables the call before ended with
parse_amendments_entry(s) ==
    [amendments |-> <<>>, state |-> "PREAMBLE", current |-> None,
     prev_id_num |-> 0, left_lines |-> <<>>, right_lines |-> <<>>,
     section_parts |-> <<>>, author_lines |-> <<>>,
     has_language_marker |-> FALSE, raised |-> FALSE]

InitPipeline ==
    /\ fragments \in FragmentLists
    /\ input = assemble_lines(fragments)
    /\ InitLocals

\* the second run: assemble_lines and parse_amendments again
CallAgain ==
    /\ pc = "done"
    /\ run = 1
    /\ first_output' = amendments
    /\ run' = 2
    /\ input' = assemble_lines(fragments)
    /\ Assign(parse_amendments_entry(S))
    /\ pc' = "loop"
    /\ i' = 0
    /\ headers' = <<>>
    /\ seen' = NothingSeen
    /\ log' = <<>>
    /\ UNCHANGED fragments

NextPipeline == NextLine \/ EndOfDocument \/ CallAgain

SpecPipeline == InitPipeline /\ [][NextPipeline]_vars

MaxTraced == 3

TracedLines ==
    { HeaderLine(1), HeaderLine(2),
      LanguageMarkerLine,
      OneSpan(71, T_Ann_comma, TRUE, 12),
      OneSpan(71, T_Article_1, TRUE, 12),
      OneSpan(71, T_Title, TRUE, 10),
      OneSpan(71, T_Proposal_on_behalf_of_Z, TRUE, 12),
      OneSpan(71, T_note, FALSE, 12),
      OneSpan(71, T_On_Behalf_Of_X, FALSE, 12),
      OneSpan(300, T_on_behalf_of_Y, FALSE, 12),
      OneSpan(300, T_AMENDMENT, TRUE, 12),
      OneSpan(244, T_ab, FALSE, 12),
      OneSpan(50, T_ab, FALSE, 12),
      OneSpan(243, T_PE_123_dot_456, FALSE, 12),
      TwoSpans(50, T_Deleted, 300, T_New_text, FALSE, 12) }

ReadTraced ==
    /\ pc = "loop"
    /\ i < MaxTraced
    /\ \E line \in TracedLines :
          /\ Consume(line)
          /\ input' = Append(input, line)

NextTraced == ReadTraced \/ EndOfInput

SpecTraced == Init /\ [][NextTraced]_vars

(***************************************************************************)
(* C13.  Repeated warnings.                                                *)
(***************************************************************************)
\* the number of warnings of a with the tag
TagCount(a, tag) ==
    Cardinality({ k \in 1..Len(a.warnings) : WarningTag(a.warnings[k]) = tag })

\* C13 as stated: no tag occurs more than once in the warnings of a record.
C13_NoTagTwice ==
    \A k \in Emitted : \A tag \in KNOWN_WARNING_TYPES :
        TagCount(amendments[k], tag) <= 1

\* C13: in the warnings of a record, suspiciously_short_column occurs at
\* most twice, ambiguous_column_split once for every body line that held a
\* fragment in the ambiguous band, and every other tag at most once.
C13_TagMultiplicity ==
    /\ Len(log) = Len(amendments)
    /\ \A k \in Emitted :
          /\ TagCount(amendments[k], T_suspiciously_short_column) <= 2
          /\ TagCount(amendments[k], T_ambiguous_column_split)
                 = log[k].ambiguous
          /\ \A tag \in KNOWN_WARNING_TYPES
                        \ { T_suspiciously_short_column,
                            T_ambiguous_column_split } :
                 TagCount(amendments[k], tag) <= 1

\* a record with two short columns, one of them from a body line in the
\* ambiguous band
C13_Witness ==
    \E k \in Emitted :
        /\ TagCount(amendments[k], T_suspiciously_short_column) = 2
        /\ TagCount(amendments[k], T_ambiguous_column_split) = 1

(***************************************************************************)
(* C14.  The lines of assemble_lines.                                      *)
(***************************************************************************)
\* the number of times v occurs in the sequence
Occurrences(seq, v) == Cardinality({ k \in 1..Len(seq) : seq[k] = v })

\* the fragments of all lines, line after line
AllSpans(lines) == Concat([k \in 1..Len(lines) |-> lines[k].spans])

\* C14: assemble_lines partitions its input: every fragment is in the lines
\* as often as in the input, no line is empty, the fragments of a line are
\* on one page and in non-decreasing x, and the lines are in the order of
\* the pages and, on one page, no fragment of an earlier line is below a
\* fragment of a later line.
C14_LinesPartitionFragments ==
    LET lines == input
    IN  /\ Len(AllSpans(lines)) = Len(fragments)
        /\ \A v \in Fragments :
              Occurrences(AllSpans(lines), v) = Occurrences(fragments, v)
        /\ \A k \in 1..Len(lines) :
              /\ lines[k].spans # <<>>
              /\ \A j \in 1..Len(lines[k].spans) :
                    lines[k].spans[j].page_num = lines[k].page_num
              /\ \A j \in 1..(Len(lines[k].spans) - 1) :
                    lines[k].spans[j].x <= lines[k].spans[j + 1].x
        /\ \A k \in 1..Len(lines) : \A l \in (k + 1)..Len(lines) :
              \/ lines[k].page_num < lines[l].page_num
              \/ /\ lines[k].page_num = lines[l].page_num
                 /\ \A a \in 1..Len(lines[k].spans) :
                      \A b \in 1..Len(lines[l].spans) :
                          lines[k].spans[a].y <= lines[l].spans[b].y

\* fragments given out of order are assembled into two lines, the first of
\* two fragments of which the left one is the lower one
C14_Witness ==
    /\ Len(fragments) = 3
    /\ KeyLess(PageYX(fragments)[2], PageYX(fragments)[1])
    /\ Len(input) = 2
    /\ Len(input[1].spans) = 2
    /\ input[1].spans[1].y > input[1].spans[2].y

(***************************************************************************)
(* Vocabulary of the steps of SpecTraced.                                  *)
(***************************************************************************)
\* the step is an iteration of the loop, on the line TheLine
Reads == i' = i + 1

TheLine == input'[i']

HasRight(line) == \E k \in 1..Len(line.spans) : line.spans[k].x >= 244

HasLeft(line) == \E k \in 1..Len(line.spans) : line.spans[k].x < 244

IsMarker(line) == LANGUAGE_MARKER_RE(line_text(line))

IsColumnLabel(line) ==
    lower(line_text(line))
        \in { lower(T_Amendment), lower(T_Proposal_for_rejection),
              lower(T_Text_proposed_by_the_Commission) }

HasKeyword(line) == \E kw \in SECTION_KEYWORDS : contains(line_text(line), kw)

OnBehalfOf(line) == contains(lower(line_text(line)), T_on_behalf_of)

(***************************************************************************)
(* C15.  From AUTHORS to TABLE_BODY.                                       *)
(***************************************************************************)
\* C15: in AUTHORS a line that is no header and no language marker and has
\* a fragment at x >= 244 moves the state to TABLE_BODY; with a fragment at
\* x < 244 too, or with a column-heading label as its text, it changes no
\* accumulator and no warning, and otherwise its text is added to the body.
\* A step leaves TABLE_BODY only on a language marker or a header.
C15_AuthorsToTableBody ==
    [][ /\ (Reads /\ state = "AUTHORS" /\ HasRight(TheLine)
              /\ ~IsHeader(TheLine) /\ ~IsMarker(TheLine)) =>
            /\ state' = "TABLE_BODY"
            /\ UNCHANGED << section_parts, author_lines, left_lines,
                            amendments, has_language_marker, prev_id_num >>
            /\ IF HasLeft(TheLine) \/ IsColumnLabel(TheLine)
               THEN UNCHANGED << right_lines, current >>
               ELSE right_lines' = Append(right_lines, line_text(TheLine))
        /\ (state = "TABLE_BODY" /\ state' # "TABLE_BODY") =>
            /\ Reads
            /\ IsHeader(TheLine) \/ IsMarker(TheLine)
      ]_vars

\* after a header, a column-heading label at the right has been discarded
\* and the state is TABLE_BODY
C15_Witness ==
    /\ pc = "loop"
    /\ i = 2
    /\ IsHeader(input[1])
    /\ input[2] = OneSpan(300, T_AMENDMENT, TRUE, 12)
    /\ state = "TABLE_BODY"
    /\ right_lines = <<>>

(***************************************************************************)
(* C16.  Bold lines in AUTHORS.                                            *)
(***************************************************************************)
\* the line is appended to the section parts and to nothing else
ToSection(line) ==
    /\ section_parts' = Append(section_parts, line_text(line))
    /\ author_lines' = author_lines

\* the line is appended to the author lines and to nothing else
ToAuthors(line) ==
    /\ author_lines' = Append(author_lines, line_text(line))
    /\ section_parts' = section_parts

\* the line is recorded as a section part if it holds a keyword or a
\* section part has been seen, and as an author line otherwise
SectionOrAuthor(line) ==
    IF HasKeyword(line) \/ section_parts # <<>>
    THEN ToSection(line) ELSE ToAuthors(line)

\* an all-bold line without a fragment at x >= 244 that is no header and
\* no language marker, read in AUTHORS
BoldLeftLineInAuthors ==
    /\ Reads
    /\ state = "AUTHORS"
    /\ line_is_bold(TheLine)
    /\ ~HasRight(TheLine)
    /\ ~IsHeader(TheLine)
    /\ ~IsMarker(TheLine)

\* C16 as stated: in AUTHORS every all-bold line without a fragment at
\* x >= 244 that is no header and no language marker is recorded as a section
\* part or an author line, whatever its size.
C16_EveryBoldLineRecorded ==
    [][ BoldLeftLineInAuthors => SectionOrAuthor(TheLine) ]_vars

\* C16: in AUTHORS an all-bold line of size >= 11 without a fragment at
\* x >= 244 that is no header and no language marker is appended to the
\* author lines if it contains "on behalf of", and is else recorded as a
\* section part or an author line; an all-bold line of a smaller size that
\* does not contain "on behalf of" is ignored.
C16_BoldLineOfSize11Recorded ==
    [][ BoldLeftLineInAuthors =>
          IF OnBehalfOf(TheLine) THEN ToAuthors(TheLine)
          ELSE IF line_size(TheLine) >= 11 THEN SectionOrAuthor(TheLine)
          ELSE UNCHANGED locals
      ]_vars

\* after a header, a bold line of size 10 with a keyword has been ignored
C16_Witness ==
    /\ pc = "loop"
    /\ i = 2
    /\ IsHeader(input[1])
    /\ input[2] = OneSpan(71, T_Title, TRUE, 10)
    /\ state = "AUTHORS"
    /\ section_parts = <<>>
    /\ author_lines = <<>>

(***************************************************************************)
(* C17.  Section continuation.                                             *)
(***************************************************************************)
\* C17 as stated: once a section part has been captured, every bold line
\* that is no header and is read in AUTHORS is appended to the section parts
\* and not to the author lines; the section of a record is its parts
\* joined by " / ".
C17_BoldAfterSectionIsSection ==
    /\ [](\A k \in Emitted :
            k <= Len(log) /\ amendments[k].section = join(T_sp_slash_sp, log[k].sections))
    /\ [][ (Reads /\ state = "AUTHORS" /\ section_parts # <<>>
              /\ line_is_bold(TheLine) /\ ~IsHeader(TheLine)) =>
           ToSection(TheLine) ]_vars

\* C17: once a section part has been captured, every bold line of size
\* >= 11 read in AUTHORS that is no header and no language marker, has no
\* fragment at x >= 244 and does not contain "on behalf of" is appended to
\* the section parts and not to the author lines; the section of a record
\* is its parts joined by " / ".
C17_BoldAfterSectionIsSection_Qualified ==
    /\ [](\A k \in Emitted :
            k <= Len(log) /\ amendments[k].section = join(T_sp_slash_sp, log[k].sections))
    /\ [][ (BoldLeftLineInAuthors /\ section_parts # <<>>
              /\ line_size(TheLine) >= 11 /\ ~OnBehalfOf(TheLine)) =>
           ToSection(TheLine) ]_vars

\* a record whose section is a keyword line and a bold line without a
\* keyword after it
C17_Witness ==
    /\ pc = "done"
    /\ Len(amendments) = 1
    /\ log[1].sections = << T_Article_1, T_Ann_comma >>
    /\ amendments[1].section = T_Article_1_slash_Ann_comma
    /\ amendments[1].authors = <<>>

(***************************************************************************)
(* C18.  Lines containing "on behalf of".                                  *)
(***************************************************************************)
\* C18 as stated: in AUTHORS every line whose text contains "on behalf of"
\* in any case is appended to the author lines, wherever its fragments are.
C18_OnBehalfOfIsAuthor ==
    [][ (Reads /\ state = "AUTHORS" /\ OnBehalfOf(TheLine)) =>
           ToAuthors(TheLine) ]_vars

\* C18: in AUTHORS a line whose text contains "on behalf of" in any case is
\* appended to the author lines, bold or not, if it has no fragment at
\* x >= 244; if it has one, the author lines stay as they are.
C18_OnBehalfOfLeftIsAuthor ==
    [][ (Reads /\ state = "AUTHORS" /\ OnBehalfOf(TheLine)) =>
           IF HasRight(TheLine)
           THEN UNCHANGED author_lines
           ELSE ToAuthors(TheLine) ]_vars

\* after a header, a non-bold line at the left containing "On Behalf Of" is
\* an author line
C18_Witness ==
    /\ pc = "loop"
    /\ i = 2
    /\ IsHeader(input[1])
    /\ input[2] = OneSpan(71, T_On_Behalf_Of_X, FALSE, 12)
    /\ author_lines = << T_On_Behalf_Of_X >>

(***************************************************************************)
(* C19.  Lines in PREAMBLE.                                                *)
(***************************************************************************)
\* C19: in PREAMBLE a line that is no header changes neither the state, the
\* amendment in progress, the four accumulators, the language-marker flag,
\* the previous id number nor the output, a language marker and a line with
\* a fragment at the right included.
C19_PreambleIgnoresLines ==
    [][ (Reads /\ state = "PREAMBLE" /\ ~IsHeader(TheLine)) =>
           UNCHANGED << amendments, state, current, prev_id_num, left_lines,
                        right_lines, section_parts, author_lines,
                        has_language_marker >> ]_vars

\* a language marker and a line with a fragment at the right, read before
\* the first header, have changed nothing
C19_Witness ==
    /\ pc = "loop"
    /\ i = 2
    /\ IsMarker(input[1])
    /\ HasRight(input[2]) /\ ~IsHeader(input[2])
    /\ state = "PREAMBLE"
    /\ ~has_language_marker
    /\ right_lines = <<>>
    /\ current = None

(***************************************************************************)
(* C20.  The vertical tolerance.                                           *)
(***************************************************************************)
\* the fragments a and b are in one line of input
InOneLine(a, b) ==
    \E k \in 1..Len(input) :
        /\ \E j \in 1..Len(input[k].spans) : input[k].spans[j] = a
        /\ \E j \in 1..Len(input[k].spans) : input[k].spans[j] = b

\* the fragments of the stream
Given == { fragments[k] : k \in 1..Len(fragments) }

\* a and b are on one page, 2 apart, with no fragment of the page between
AdjacentAtTolerance(a, b) ==
    /\ a.page_num = b.page_num
    /\ b.y - a.y = 2
    /\ ~ \E c \in Given :
           c.page_num = a.page_num /\ a.y < c.y /\ c.y < b.y

\* C20 as stated: the fragments of a line are on one page and any two of
\* them differ in y by at most 2; two y-adjacent fragments of a page that
\* differ in y by exactly 2 are in one line.
C20_LineWithinTolerance ==
    /\ \A k \in 1..Len(input) :
          \A a, b \in { input[k].spans[j] : j \in 1..Len(input[k].spans) } :
              a.page_num = b.page_num /\ abs(a.y - b.y) <= 2
    /\ \A a, b \in Given : AdjacentAtTolerance(a, b) => InOneLine(a, b)

\* C20: the fragments of a line are on one page and every fragment of a
\* line but the topmost ones has a fragment of the line above it that is at
\* most 2 away, so that the fragments of a line can differ by more than 2;
\* two y-adjacent fragments of a page that differ in y by exactly 2 are in
\* one line, and two that differ by more are not.
C20_LineChainedWithinTolerance ==
    /\ \A k \in 1..Len(input) :
          LET S_k == { input[k].spans[j] : j \in 1..Len(input[k].spans) }
          IN  \A a \in S_k :
                  /\ a.page_num = input[k].page_num
                  /\ \/ \A b \in S_k : a.y <= b.y
                     \/ \E b \in S_k : b.y < a.y /\ a.y - b.y <= 2
    /\ \A a, b \in Given :
          /\ AdjacentAtTolerance(a, b) => InOneLine(a, b)
          /\ (a.page_num = b.page_num /\ b.y - a.y > 2
                /\ ~ \E c \in Given : c.page_num = a.page_num
                                     /\ a.y < c.y /\ c.y < b.y)
             => ~InOneLine(a, b)

\* one line of three fragments of which the topmost and the lowest are 4
\* apart
C20_Witness ==
    /\ Len(input) = 1
    /\ Len(input[1].spans) = 3
    /\ \E a, b \in Given : a.page_num = b.page_num /\ b.y - a.y = 4

(***************************************************************************)
(* C21.  The amendment in progress.                                        *)
(***************************************************************************)
\* C21: after any number of lines of the loop, in AUTHORS and in TABLE_BODY
\* there is an amendment in progress, so that add_table_text never raises
\* for a missing one; and without an amendment in progress the state is
\* PREAMBLE, the four accumulators are empty and the language-marker flag is
\* false.
C21_AmendmentInProgress ==
    /\ pc # "raised"
    /\ pc = "loop" =>
          /\ state \in {"AUTHORS", "TABLE_BODY"} => current # None
          /\ current = None =>
                /\ state = "PREAMBLE"
                /\ author_lines = <<>> /\ section_parts = <<>>
                /\ left_lines = <<>> /\ right_lines = <<>>
                /\ ~has_language_marker

\* in TABLE_BODY add_table_text has attached an ambiguous_column_split
\* warning to the amendment in progress
C21_Witness ==
    /\ pc = "loop"
    /\ state = "TABLE_BODY"
    /\ current # None
    /\ TagCount(current[1], T_ambiguous_column_split) >= 1
    /\ right_lines # <<>>
=============================================================================
